---- MODULE Spec2Model ----
(***************************************************************************)
(* A model of the sytha-ai legal RAG application: the bulk-indexing runs   *)
(* (the indexing HTTP route, the CLI indexing script, the upload path) and *)
(* the chat route with its one-time initialization latch.                  *)
(*                                                                         *)
(* External services (embedding, vector index, completion) are opaque:     *)
(* every call is issued in one step and resolves in a later step, with a   *)
(* nondeterministic outcome (ok or fail).  Each `await` of the source is   *)
(* an interleaving point; the synchronous code between two awaits is one   *)
(* atomic action.                                                          *)
(***************************************************************************)
EXTENDS Integers, Sequences, FiniteSets, TLC

VARIABLES
    env,          \* process.env: the three credentials the code reads
    index,        \* the external vector index: the set of vector ids it holds
    corpus,       \* number of chunks the corpus on disk (or the upload) yields
    run,          \* the ingestion runs: run[r] is the state of run r
    initialized,  \* api/chat/route.ts: the latch `let initialized = false`
    initCalls,    \* ghost: number of initLegalIndex invocations so far
    served,       \* ghost: number of chat requests received so far
    req,          \* the chat requests in flight: req[q] is the state of slot q
    dataset,      \* the dataset directory on disk that a load reads
    documents,    \* what the load of the dataset returned (or that it threw)
    input,        \* the arguments of a call of a chunking function
    output        \* the chunks that call returned

vars == <<env, index, corpus, run, initialized, initCalls, served, req,
          dataset, documents, input, output>>

\* the state of the functions run on their own: corpus loading and chunking
offlineVars == <<dataset, documents, input, output>>

ingestVars == <<index, corpus, run>>
chatVars == <<initialized, initCalls, served, req>>

-----------------------------------------------------------------------------
(* Bounds of the model *)

\* largest corpus, in chunks: 101 chunks make three batches (50, 50, 1)
MaxChunks == 101

(* Program constants *)

\* const batchSize = 50 (route, upload) and the default of indexToPinecone
batchSize == 50

Min(a, b) == IF a < b THEN a ELSE b

-----------------------------------------------------------------------------
(* Environment: lib/env.ts (appended to src/lib/pinecone.ts) *)

Envs == [openai : {"missing", "bad", "ok"}, pineconeKey : BOOLEAN, pineconeIndex : BOOLEAN]

\* getConfig: validateEnvVar throws ConfigurationError on the first missing
\* variable, in the order OPENAI_API_KEY, PINECONE_API_KEY, PINECONE_INDEX
getConfigError(e) ==
    IF e.openai = "missing" THEN <<"Missing OPENAI_API_KEY">>
    ELSE IF ~e.pineconeKey THEN <<"Missing PINECONE_API_KEY">>
    ELSE IF ~e.pineconeIndex THEN <<"Missing PINECONE_INDEX">>
    ELSE <<>>

\* getEnvConfig succeeds (does not throw)
configLoads(e) == getConfigError(e) = <<>>

\* validateEnvironment: the list of errors; valid iff the list is empty.
\* "bad" is a key that is present but does not start with "sk-".
validateEnvironment(e) ==
    IF ~configLoads(e) THEN getConfigError(e)
    ELSE IF e.openai = "bad" THEN <<"OPENAI_API_KEY appears to be invalid">>
    ELSE <<>>

\* a validation that looks at the index credentials only
envValidPineconeOnly(e) == e.pineconeKey /\ e.pineconeIndex

envValid(e) == validateEnvironment(e) = <<>>

\* Boolean(process.env.PINECONE_API_KEY && process.env.PINECONE_INDEX)
pineconeConfigured(e) == e.pineconeKey /\ e.pineconeIndex

-----------------------------------------------------------------------------
(* Ingestion runs *)

Runs == {"A", "B"}
Kinds == {"route", "cli", "upload"}

\* an index holding one vector from before the run, not part of the corpus
\* (chunk ordinals start at 1)
StaleIndex == {0}

Ev(op, b, ev) == [op |-> op, batch |-> b, ev |-> ev]

NoSummary == [totalIndexed |-> 0, errors |-> <<>>, vectorCount |-> 0]

OffRun ==
    [kind |-> "off", clear |-> FALSE, pc |-> "off", chunks |-> 0, i |-> 0,
     totalIndexed |-> 0, errors |-> <<>>, calls |-> <<>>,
     status |-> "none", hasSummary |-> FALSE, summary |-> NoSummary]

NewRun(k, c) == [OffRun EXCEPT !.kind = k, !.clear = c, !.pc = "start"]

\* Math.floor(i / batchSize) + 1
batchNum(i) == (i \div batchSize) + 1

\* chunks.slice(i, i + batchSize), as the set of chunk ordinals 1..n it holds
batchIds(i, n) == (i + 1)..Min(i + batchSize, n)

\* a variant of batchLen that counts a full batch whatever the slice holds
batchLenFull(i, n) == batchSize

\* batch.length
batchLen(i, n) == Cardinality(batchIds(i, n))

Log(r, e) == Append(run[r].calls, e)

\* The run ends: a response is sent (route, upload) or the process exits (cli)
Finish(r, st, lg) ==
    run' = [run EXCEPT ![r].pc = "done", ![r].status = st, ![r].calls = lg]

\* the outer catch of the route (500), of the upload route (500), of main (exit 1)
failStatus(k) == IF k = "cli" THEN "exit1" ELSE "500"

\* After the pre-flight checks: `if (clearExisting) await deleteAllVectors()`,
\* then the load.  lg is the run's call log so far.
\* a variant of afterPreflight that ignores clearExisting / --clear
afterPreflightNoClear(r, lg) ==
    run' = [run EXCEPT ![r].pc = "load", ![r].calls = lg]

afterPreflight(r, lg) ==
    IF run[r].clear
    THEN run' = [run EXCEPT ![r].pc = "clearing",
                            ![r].calls = Append(lg, Ev("deleteAll", 0, "call"))]
    ELSE run' = [run EXCEPT ![r].pc = "load", ![r].calls = lg]

\* api/index route, POST: request.json(), validateEnvironment, clearExisting
RouteStart(r) ==
    /\ run[r].kind = "route" /\ run[r].pc = "start"
    /\ \E jsonOk \in BOOLEAN :
         IF ~jsonOk
         THEN Finish(r, "500", run[r].calls)
         ELSE IF ~envValid(env)
         THEN Finish(r, "400", Log(r, Ev("validate", 0, "fail")))
         ELSE afterPreflight(r, Log(r, Ev("validate", 0, "ok")))
    /\ UNCHANGED <<env, offlineVars, index, corpus, chatVars>>

\* scripts/index-legal-docs.ts, main: validateEnvironment, then the
\* connection check is issued (describeIndexStats)
CliStart(r) ==
    /\ run[r].kind = "cli" /\ run[r].pc = "start"
    /\ IF ~envValid(env)
       THEN Finish(r, "exit1", Log(r, Ev("validate", 0, "fail")))
       ELSE run' = [run EXCEPT ![r].pc = "connecting",
                      ![r].calls = Append(Log(r, Ev("validate", 0, "ok")),
                                          Ev("connect", 0, "call"))]
    /\ UNCHANGED <<env, offlineVars, index, corpus, chatVars>>

\* checkPineconeConnection resolved true
ConnectOk(r) ==
    /\ run[r].pc = "connecting"
    /\ afterPreflight(r, Log(r, Ev("connect", 0, "ok")))
    /\ UNCHANGED <<env, offlineVars, index, corpus, chatVars>>

\* checkPineconeConnection resolved false: process.exit(1)
ConnectFailed(r) ==
    /\ run[r].pc = "connecting"
    /\ Finish(r, "exit1", Log(r, Ev("connect", 0, "fail")))
    /\ UNCHANGED <<env, offlineVars, index, corpus, chatVars>>

\* deleteAllVectors resolved: index.deleteAll() emptied the index
\* a variant of ClearOk for a clear that waits for the outcome of the load:
\* the index is left as it is
ClearOkDeferred(r) ==
    /\ run[r].pc = "clearing"
    /\ run' = [run EXCEPT ![r].pc = "load",
                          ![r].calls = Log(r, Ev("deleteAll", 0, "ok"))]
    /\ UNCHANGED <<env, offlineVars, index, corpus, chatVars>>

\* a variant of ClearOk for a delete that is issued but not awaited: the run
\* may go on to the load before the delete lands, and the delete lands later
ClearOkUnawaited(r) ==
    LET landed == \E k \in DOMAIN run[r].calls :
                      run[r].calls[k] = Ev("deleteAll", 0, "ok") IN
    \/ /\ run[r].pc = "clearing"
       /\ run' = [run EXCEPT ![r].pc = "load"]
       /\ UNCHANGED <<env, offlineVars, index, corpus, chatVars>>
    \/ /\ run[r].clear /\ run[r].pc \notin {"off", "start", "connecting"}
       /\ ~landed
       /\ index' = {}
       /\ run' = [run EXCEPT ![r].pc = IF @ = "clearing" THEN "load" ELSE @,
                             ![r].calls = Log(r, Ev("deleteAll", 0, "ok"))]
       /\ UNCHANGED <<env, offlineVars, corpus, chatVars>>

ClearOk(r) ==
    /\ run[r].pc = "clearing"
    /\ index' = {}
    /\ run' = [run EXCEPT ![r].pc = "load",
                          ![r].calls = Log(r, Ev("deleteAll", 0, "ok"))]
    /\ UNCHANGED <<env, offlineVars, corpus, chatVars>>

\* a variant of ClearFailed that swallows the error and goes on to the load
ClearFailedSwallowed(r) ==
    /\ run[r].pc = "clearing"
    /\ run' = [run EXCEPT ![r].pc = "load",
                          ![r].calls = Log(r, Ev("deleteAll", 0, "fail"))]
    /\ UNCHANGED <<env, offlineVars, index, corpus, chatVars>>

\* deleteAllVectors rethrows; the outer catch of the route answers 500, the
\* catch of main exits with 1
ClearFailed(r) ==
    /\ run[r].pc = "clearing"
    /\ Finish(r, failStatus(run[r].kind), Log(r, Ev("deleteAll", 0, "fail")))
    /\ UNCHANGED <<env, offlineVars, index, corpus, chatVars>>

\* loadAllDocuments (route), loadAllCSVFiles + loadJSONStatutes (cli) throw:
\* a CSV file that fails to parse is rethrown, readdirSync of a missing dataset
\* directory throws
LoadFailed(r) ==
    /\ run[r].pc = "load"
    /\ Finish(r, failStatus(run[r].kind), Log(r, Ev("load", 0, "fail")))
    /\ UNCHANGED <<env, offlineVars, index, corpus, chatVars>>

\* The corpus is loaded and chunked.  Every loaded document yields at least
\* one chunk, so documents.length = 0 exactly when the corpus has no chunk;
\* the route answers 400 then, the cli goes on with an empty chunk list.
LoadOk(r) ==
    /\ run[r].pc = "load"
    /\ IF run[r].kind = "route" /\ corpus = 0
       THEN Finish(r, "400", Log(r, Ev("load", 0, "ok")))
       ELSE run' = [run EXCEPT ![r].pc = "loop", ![r].chunks = corpus, ![r].i = 0,
                               ![r].calls = Log(r, Ev("load", 0, "ok"))]
    /\ UNCHANGED <<env, offlineVars, index, corpus, chatVars>>

\* api/upload route, POST, up to the batch loop of uploadDocumentsToPinecone
UploadStart(r) ==
    /\ run[r].kind = "upload" /\ run[r].pc = "start"
    /\ \E form \in {"bad", "nofiles", "files"} :
         IF ~pineconeConfigured(env) THEN Finish(r, "500", run[r].calls)
         ELSE IF form = "bad" THEN Finish(r, "500", run[r].calls)
         ELSE IF form = "nofiles" THEN Finish(r, "400", run[r].calls)
         ELSE IF corpus = 0
         THEN run' = [run EXCEPT ![r].pc = "done", ![r].status = "200",
                                 ![r].hasSummary = TRUE]
         ELSE IF ~configLoads(env) THEN Finish(r, "500", run[r].calls)
         ELSE run' = [run EXCEPT ![r].pc = "loop", ![r].chunks = corpus, ![r].i = 0]
    /\ UNCHANGED <<env, offlineVars, index, corpus, chatVars>>

\* a variant of EmbedIssue without the await: the loop goes on to the next
\* batch while the call is still in flight
EmbedIssueNoAwait(r) ==
    /\ run[r].pc = "loop" /\ run[r].i < run[r].chunks
    /\ run' = [run EXCEPT ![r].i = @ + batchSize,
                          ![r].calls = Log(r, Ev("embed", batchNum(run[r].i), "call"))]
    /\ UNCHANGED <<env, offlineVars, index, corpus, chatVars>>

\* Loop head, i < chunks.length: embedTexts(texts) of the batch at i is issued
EmbedIssue(r) ==
    /\ run[r].pc = "loop" /\ run[r].i < run[r].chunks
    /\ run' = [run EXCEPT ![r].pc = "embedding",
                          ![r].calls = Log(r, Ev("embed", batchNum(run[r].i), "call"))]
    /\ UNCHANGED <<env, offlineVars, index, corpus, chatVars>>

\* embedTexts resolved: the vectors are built and index.upsert is issued
EmbedOk(r) ==
    /\ run[r].pc = "embedding"
    /\ run' = [run EXCEPT ![r].pc = "upserting",
                 ![r].calls = Append(Log(r, Ev("embed", batchNum(run[r].i), "ok")),
                                     Ev("upsert", batchNum(run[r].i), "call"))]
    /\ UNCHANGED <<env, offlineVars, index, corpus, chatVars>>

\* The catch of the batch loop, for the failed call op of the batch at i:
\* the route logs and continues, the upload path records the error and
\* continues, indexToPinecone of the cli rethrows (main exits with 1).
batchFailed(r, op) ==
    LET lg == Log(r, Ev(op, batchNum(run[r].i), "fail")) IN
    IF run[r].kind = "cli"
    THEN Finish(r, "exit1", lg)
    ELSE run' = [run EXCEPT ![r].pc = "loop", ![r].i = @ + batchSize,
                   ![r].calls = lg,
                   ![r].errors = IF run[r].kind = "upload"
                                 THEN Append(@, batchNum(run[r].i)) ELSE @]

EmbedFailed(r) ==
    /\ run[r].pc = "embedding"
    /\ batchFailed(r, "embed")
    /\ UNCHANGED <<env, offlineVars, index, corpus, chatVars>>

UpsertFailed(r) ==
    /\ run[r].pc = "upserting"
    /\ batchFailed(r, "upsert")
    /\ UNCHANGED <<env, offlineVars, index, corpus, chatVars>>

\* index.upsert resolved: the vectors are in the index, the count is raised,
\* then the 100 ms delay (the upload path skips it after the last batch)
UpsertOk(r) ==
    /\ run[r].pc = "upserting"
    /\ index' = index \cup batchIds(run[r].i, run[r].chunks)
    /\ LET last == run[r].kind = "upload" /\ ~(run[r].i + batchSize < run[r].chunks) IN
       run' = [run EXCEPT
                 ![r].totalIndexed = @ + batchLen(run[r].i, run[r].chunks),
                 ![r].calls = Log(r, Ev("upsert", batchNum(run[r].i), "ok")),
                 ![r].pc = IF last THEN "loop" ELSE "delay",
                 ![r].i = IF last THEN @ + batchSize ELSE @]
    /\ UNCHANGED <<env, offlineVars, corpus, chatVars>>

\* the delay elapsed: i += batchSize
DelayElapsed(r) ==
    /\ run[r].pc = "delay"
    /\ run' = [run EXCEPT ![r].pc = "loop", ![r].i = @ + batchSize]
    /\ UNCHANGED <<env, offlineVars, index, corpus, chatVars>>

\* Loop exit of the route and of the cli: index.describeIndexStats() is issued
StatsIssue(r) ==
    /\ run[r].kind \in {"route", "cli"}
    /\ run[r].pc = "loop" /\ ~(run[r].i < run[r].chunks)
    /\ run' = [run EXCEPT ![r].pc = "stats",
                          ![r].calls = Log(r, Ev("stats", 0, "call"))]
    /\ UNCHANGED <<env, offlineVars, index, corpus, chatVars>>

\* The summary: the route's 200 response carries no error list; main logs the
\* same numbers and exits with 0
StatsOk(r) ==
    /\ run[r].pc = "stats"
    /\ run' = [run EXCEPT ![r].pc = "done",
                 ![r].status = IF run[r].kind = "cli" THEN "exit0" ELSE "200",
                 ![r].calls = Log(r, Ev("stats", 0, "ok")),
                 ![r].hasSummary = TRUE,
                 ![r].summary = [totalIndexed |-> run[r].totalIndexed,
                                 errors |-> <<>>,
                                 vectorCount |-> Cardinality(index)]]
    /\ UNCHANGED <<env, offlineVars, index, corpus, chatVars>>

StatsFailed(r) ==
    /\ run[r].pc = "stats"
    /\ Finish(r, failStatus(run[r].kind), Log(r, Ev("stats", 0, "fail")))
    /\ UNCHANGED <<env, offlineVars, index, corpus, chatVars>>

\* Loop exit of uploadDocumentsToPinecone: { uploadedChunks, errors } (errors
\* undefined, here the empty list, when no batch failed); the upload route
\* answers 200
UploadReturn(r) ==
    /\ run[r].kind = "upload"
    /\ run[r].pc = "loop" /\ ~(run[r].i < run[r].chunks)
    /\ run' = [run EXCEPT ![r].pc = "done", ![r].status = "200",
                 ![r].hasSummary = TRUE,
                 ![r].summary = [totalIndexed |-> run[r].totalIndexed,
                                 errors |-> run[r].errors,
                                 vectorCount |-> 0]]
    /\ UNCHANGED <<env, offlineVars, index, corpus, chatVars>>

IngestStep(r) ==
    \/ RouteStart(r) \/ CliStart(r) \/ UploadStart(r)
    \/ ConnectOk(r) \/ ConnectFailed(r)
    \/ ClearOk(r) \/ ClearFailed(r)
    \/ LoadOk(r) \/ LoadFailed(r)
    \/ EmbedIssue(r) \/ EmbedOk(r) \/ EmbedFailed(r)
    \/ UpsertOk(r) \/ UpsertFailed(r) \/ DelayElapsed(r)
    \/ StatsIssue(r) \/ StatsOk(r) \/ StatsFailed(r) \/ UploadReturn(r)

IngestNext == \E r \in Runs : IngestStep(r)

\* a step of a run of the indexing route or of the CLI
BulkStep(r) ==
    \/ RouteStart(r) \/ CliStart(r)
    \/ ConnectOk(r) \/ ConnectFailed(r)
    \/ ClearOk(r) \/ ClearFailed(r)
    \/ LoadOk(r) \/ LoadFailed(r)
    \/ EmbedIssue(r) \/ EmbedOk(r) \/ EmbedFailed(r)
    \/ UpsertOk(r) \/ UpsertFailed(r) \/ DelayElapsed(r)
    \/ StatsIssue(r) \/ StatsOk(r) \/ StatsFailed(r)

\* Nothing serializes the runs: any started run may take the next step
ConcNext == \E r \in Runs : BulkStep(r)

\* The same ingestion is run again once the first run has ended: a second
\* POST with the same body, a second invocation of the CLI with the same flags
SecondRun ==
    /\ run["A"].pc = "done" /\ run["B"].pc = "off"
    /\ run' = [run EXCEPT !["B"] = NewRun(run["A"].kind, run["A"].clear)]
    /\ UNCHANGED <<env, offlineVars, index, corpus, chatVars>>

-----------------------------------------------------------------------------
(* Chat route *)

\* chat requests received over the process lifetime
MaxRequests == 2
\* longest question, in characters
MaxQLen == 1
\* most matches the index query returns (the code asks for topK)
MaxMatches == 2

\* const topDocs = await retrieveWithPinecone(trimmed, 8)
topK == 8

ReqSlots == {"a", "b"}

\* A question is a sequence of characters: a space or a letter
Chars == {" ", "x"}
Questions == UNION {[1..n -> Chars] : n \in 0..MaxQLen}

\* the white space String.prototype.trim removes: the space and the line
\* terminator stand for all of it
WhiteSpace == {" ", "\n"}

\* String.prototype.trim, on sequences of characters
RECURSIVE trimStart(_)
trimStart(s) ==
    IF s = <<>> THEN s
    ELSE IF Head(s) \in WhiteSpace THEN trimStart(Tail(s)) ELSE s

RECURSIVE trimEnd(_)
trimEnd(s) ==
    IF s = <<>> THEN s
    ELSE IF s[Len(s)] \in WhiteSpace THEN trimEnd(SubSeq(s, 1, Len(s) - 1)) ELSE s

trim(s) == trimEnd(trimStart(s))

\* The request bodies: one that request.json() rejects, and one per question
\* (a body without a question reads as the empty question: body?.question ?? "")
Bodies == {[json |-> FALSE, question |-> <<>>]}
          \cup {[json |-> TRUE, question |-> s] : s \in Questions}

\* What the index query resolves with: matches in ranking order, each with or
\* without a text in its metadata
MatchSeqs ==
    UNION {{[k \in 1..n |-> [id |-> k, text |-> f[k]]] : f \in [1..n -> BOOLEAN]}
           : n \in 0..Min(MaxMatches, topK)}

\* .filter((doc) => doc.text)
hasText(m) == m.text
filterDocs(matches) == SelectSeq(matches, hasText)

IdleReq ==
    [pc |-> "idle", via |-> "none", body |-> [json |-> TRUE, question |-> <<>>],
     ext |-> {}, retrieval |-> "none", docs |-> <<>>,
     completion |-> "none", outcome |-> "none", answer |-> "none",
     sources |-> <<>>, status |-> "none"]

ChatIdle ==
    /\ initialized = FALSE
    /\ initCalls = 0
    /\ served = 0
    /\ req = [q \in ReqSlots |-> IdleReq]

\* A request arrives in a free slot: a POST to the chat route, or a direct
\* call of the exported answerLegalQuestion.
Receive(q) ==
    /\ req[q].pc \in {"idle", "done"}
    /\ served < MaxRequests
    /\ \E b \in Bodies, v \in {"route", "direct"} :
         /\ (v = "direct" => b.json)
         /\ req' = [req EXCEPT ![q] =
                      [IdleReq EXCEPT !.pc = IF v = "route" THEN "ensure" ELSE "answer",
                                      !.via = v, !.body = b]]
    /\ served' = served + 1
    /\ UNCHANGED <<env, offlineVars, ingestVars, initialized, initCalls>>

\* the catch of the route's POST: status 500
respond500(q) ==
    req' = [req EXCEPT ![q].pc = "done", ![q].status = "500"]

\* ensureInitialized with the latch set: nothing to do
EnsureLatched(q) ==
    /\ req[q].pc = "ensure" /\ initialized
    /\ req' = [req EXCEPT ![q].pc = "body"]
    /\ UNCHANGED <<env, offlineVars, ingestVars, initialized, initCalls, served>>

\* a variant of EnsureEnvInvalid that sets the latch before it throws
EnsureEnvInvalidLatched(q) ==
    /\ req[q].pc = "ensure" /\ ~initialized /\ ~envValid(env)
    /\ initialized' = TRUE
    /\ respond500(q)
    /\ UNCHANGED <<env, offlineVars, ingestVars, initCalls, served>>

\* ensureInitialized, latch not set, validateEnvironment invalid: throws
EnsureEnvInvalid(q) ==
    /\ req[q].pc = "ensure" /\ ~initialized /\ ~envValid(env)
    /\ respond500(q)
    /\ UNCHANGED <<env, offlineVars, ingestVars, initialized, initCalls, served>>

\* ensureInitialized, latch not set, environment valid: initLegalIndex is
\* called and, Pinecone being configured, issues describeIndexStats;
\* the request is suspended at `await initLegalIndex()`
InitIssue(q) ==
    /\ req[q].pc = "ensure" /\ ~initialized /\ envValid(env)
    /\ initCalls' = initCalls + 1
    /\ req' = [req EXCEPT ![q].pc = "init_await",
                 ![q].ext = IF pineconeConfigured(env) THEN @ \cup {"stats"} ELSE @]
    /\ UNCHANGED <<env, offlineVars, ingestVars, initialized, served>>

\* initLegalIndex resolved (a failure of describeIndexStats is caught inside
\* it, so it resolves either way): initialized = true
InitResolved(q) ==
    /\ req[q].pc = "init_await"
    /\ initialized' = TRUE
    /\ req' = [req EXCEPT ![q].pc = "body"]
    /\ UNCHANGED <<env, offlineVars, ingestVars, initCalls, served>>

\* request.json() throws: the catch answers 500
BodyInvalid(q) ==
    /\ req[q].pc = "body" /\ ~req[q].body.json
    /\ respond500(q)
    /\ UNCHANGED <<env, offlineVars, ingestVars, initialized, initCalls, served>>

\* if (!question || !question.trim()): status 400
QuestionRejected(q) ==
    /\ req[q].pc = "body" /\ req[q].body.json
    /\ trim(req[q].body.question) = <<>>
    /\ req' = [req EXCEPT ![q].pc = "done", ![q].status = "400"]
    /\ UNCHANGED <<env, offlineVars, ingestVars, initialized, initCalls, served>>

\* the route calls answerLegalQuestion(question)
QuestionAccepted(q) ==
    /\ req[q].pc = "body" /\ req[q].body.json
    /\ trim(req[q].body.question) # <<>>
    /\ req' = [req EXCEPT ![q].pc = "answer"]
    /\ UNCHANGED <<env, offlineVars, ingestVars, initialized, initCalls, served>>

\* answerLegalQuestion returns a ChatResult; the route answers it with 200
return(q, why, ans, srcs, comp) ==
    req' = [req EXCEPT ![q].pc = "done", ![q].outcome = "returned",
              ![q].retrieval = why, ![q].completion = comp,
              ![q].answer = ans, ![q].sources = srcs,
              ![q].status = IF req[q].via = "route" THEN "200" ELSE "none"]

\* answerLegalQuestion throws; the catch of the route answers 500
throw(q, why, comp) ==
    req' = [req EXCEPT ![q].pc = "done", ![q].outcome = "threw",
              ![q].retrieval = why, ![q].completion = comp,
              ![q].status = IF req[q].via = "route" THEN "500" ELSE "none"]

\* answerLegalQuestion up to the first await: the empty-question throw, the
\* not-configured message, or retrieveWithPinecone issuing embedTexts
AnswerStart(q) ==
    /\ req[q].pc = "answer"
    /\ IF trim(req[q].body.question) = <<>>
       THEN throw(q, "none", "none")
       ELSE IF ~pineconeConfigured(env)
       THEN return(q, "none", "NotConfigured", <<>>, "none")
       ELSE req' = [req EXCEPT ![q].pc = "embed_await", ![q].ext = @ \cup {"embed"}]
    /\ UNCHANGED <<env, offlineVars, ingestVars, initialized, initCalls, served>>

\* a variant of noDocs that lets the retrieval failure propagate
noDocsThrows(q, why) ==
    throw(q, why, "none")

\* retrieveWithPinecone returned [] (no embedding, no match, no match with a
\* text, or the catch of a failed call): the fixed "could not find" result
noDocs(q, why) ==
    return(q, why, "CouldNotFind", <<>>, "none")

\* embedTexts failed (the service, or getOpenAIClient without a key)
QEmbedFailed(q) ==
    /\ req[q].pc = "embed_await"
    /\ noDocs(q, "embed_failed")
    /\ UNCHANGED <<env, offlineVars, ingestVars, initialized, initCalls, served>>

\* embedTexts resolved without an embedding: if (!queryEmbedding) return []
QEmbedAbsent(q) ==
    /\ req[q].pc = "embed_await" /\ env.openai # "missing"
    /\ noDocs(q, "embed_absent")
    /\ UNCHANGED <<env, offlineVars, ingestVars, initialized, initCalls, served>>

\* embedTexts resolved: index.query is issued; getPineconeIndex throws inside
\* the try when the configuration does not load
QEmbedOk(q) ==
    /\ req[q].pc = "embed_await" /\ env.openai # "missing"
    /\ IF ~configLoads(env)
       THEN noDocs(q, "query_failed")
       ELSE req' = [req EXCEPT ![q].pc = "query_await", ![q].ext = @ \cup {"query"}]
    /\ UNCHANGED <<env, offlineVars, ingestVars, initialized, initCalls, served>>

QueryFailed(q) ==
    /\ req[q].pc = "query_await"
    /\ noDocs(q, "query_failed")
    /\ UNCHANGED <<env, offlineVars, ingestVars, initialized, initCalls, served>>

\* index.query resolved with matches m: no match, no match with a text, or
\* the context is assembled and the completion call is issued
QueryOk(q) ==
    /\ req[q].pc = "query_await"
    /\ \E m \in MatchSeqs :
         IF m = <<>> THEN noDocs(q, "no_match")
         ELSE IF filterDocs(m) = <<>> THEN noDocs(q, "no_text")
         ELSE req' = [req EXCEPT ![q].pc = "completion_await",
                        ![q].retrieval = "docs", ![q].docs = filterDocs(m),
                        ![q].completion = "pending",
                        ![q].ext = @ \cup {"completion"}]
    /\ UNCHANGED <<env, offlineVars, ingestVars, initialized, initCalls, served>>

\* the completion resolved: the trimmed text, or the fallback when it is
\* empty or absent; one source per retrieved document
CompletionOk(q) ==
    /\ req[q].pc = "completion_await"
    /\ \E text \in {"empty", "text"} :
         return(q, "docs", IF text = "empty" THEN "Fallback" ELSE "Completion",
                req[q].docs, "ok")
    /\ UNCHANGED <<env, offlineVars, ingestVars, initialized, initCalls, served>>

\* a variant of CompletionFailed that answers a degraded result instead
CompletionFailedDegraded(q) ==
    /\ req[q].pc = "completion_await"
    /\ return(q, "docs", "Fallback", <<>>, "failed")
    /\ UNCHANGED <<env, offlineVars, ingestVars, initialized, initCalls, served>>

\* the completion failed: the catch logs and rethrows
CompletionFailed(q) ==
    /\ req[q].pc = "completion_await"
    /\ throw(q, "docs", "failed")
    /\ UNCHANGED <<env, offlineVars, ingestVars, initialized, initCalls, served>>

ChatStep(q) ==
    \/ Receive(q)
    \/ EnsureLatched(q) \/ EnsureEnvInvalid(q) \/ InitIssue(q) \/ InitResolved(q)
    \/ BodyInvalid(q) \/ QuestionRejected(q) \/ QuestionAccepted(q)
    \/ AnswerStart(q)
    \/ QEmbedFailed(q) \/ QEmbedAbsent(q) \/ QEmbedOk(q)
    \/ QueryFailed(q) \/ QueryOk(q)
    \/ CompletionOk(q) \/ CompletionFailed(q)

ChatNext == \E q \in ReqSlots : ChatStep(q)

\* no ingestion run, an empty index
IngestIdle ==
    /\ index = {}
    /\ corpus = 0
    /\ run = [r \in Runs |-> OffRun]

-----------------------------------------------------------------------------
(* Corpus loading: loadAllDocuments of the indexing route, loadAllCSVFiles *)
(* and loadJSONStatutes of the CLI                                         *)

\* largest number of .json files in the dataset directory: one more than the
\* route's limit
MaxJsonFiles == 101

\* .slice(0, 100) of the route's loadAllDocuments
jsonLimit == 100

\* const csvFiles: the four acts, in the order they are loaded
csvFiles == <<"IPC", "BNS", "BSA", "CrPC">>
Acts == {csvFiles[k] : k \in DOMAIN csvFiles}

\* A CSV file is absent, or present and rejected by the parser, or present
\* and parsed.  The .json files are numbered in readdirSync order; `bad` are
\* the ones JSON.parse rejects.
CsvStates == {"missing", "malformed", "ok"}
JsonDirs ==
    UNION {{[n |-> n, bad |-> b] : b \in SUBSET ({1, n} \cap 1..n)} : n \in 0..MaxJsonFiles}
Datasets == [csv : [Acts -> CsvStates], json : JsonDirs]

NoDataset == [csv |-> [a \in Acts |-> "missing"], json |-> [n |-> 0, bad |-> {}]]
NotLoaded == [by |-> "none", status |-> "none", csv |-> {}, json |-> {}]

\* loadCSVFile throws for a file the parser rejects (the catch rethrows), so
\* the loop over csvFiles throws at the first malformed file that exists
csvThrows(d) == \E a \in Acts : d.csv[a] = "malformed"

\* the acts whose file passes fs.existsSync and is parsed
csvLoaded(d) == {a \in Acts : d.csv[a] = "ok"}

\* the files of jsons that JSON.parse accepts (the others are skipped by the
\* catch inside the loop)
jsonParsed(d, jsons) == {f \in jsons : f \notin d.json.bad}

\* readdirSync(datasetPath).filter(.json).slice(0, 100)
routeJsonFiles(d) == 1..Min(d.json.n, jsonLimit)

\* readdirSync(datasetPath).filter(.json) of loadJSONStatutes
cliJsonFiles(d) == 1..d.json.n

Thrown(by) == [by |-> by, status |-> "throw", csv |-> {}, json |-> {}]

\* loadAllDocuments of the indexing route
loadAllDocuments(d) ==
    IF csvThrows(d) THEN Thrown("route")
    ELSE [by |-> "route", status |-> "ok", csv |-> csvLoaded(d),
          json |-> jsonParsed(d, routeJsonFiles(d))]

\* loadAllCSVFiles of the CLI: the acts it returns
loadAllCSVFiles(d) == csvLoaded(d)

\* loadJSONStatutes of the CLI: the statutes it returns
loadJSONStatutes(d) == jsonParsed(d, cliJsonFiles(d))

\* the route's POST calls loadAllDocuments
RouteLoad ==
    /\ documents = NotLoaded
    /\ documents' = loadAllDocuments(dataset)
    /\ UNCHANGED <<env, ingestVars, chatVars, dataset, input, output>>

\* main of the CLI: [...await loadAllCSVFiles(), ...await loadJSONStatutes()]
CliLoad ==
    /\ documents = NotLoaded
    /\ documents' = IF csvThrows(dataset) THEN Thrown("cli")
                    ELSE [by |-> "cli", status |-> "ok",
                          csv |-> loadAllCSVFiles(dataset),
                          json |-> loadJSONStatutes(dataset)]
    /\ UNCHANGED <<env, ingestVars, chatVars, dataset, input, output>>

LoadNext == RouteLoad \/ CliLoad

-----------------------------------------------------------------------------
(* Chunking: chunkText of lib/upload.ts (fixed window), and the word-aware *)
(* splitter chunkAndPrepareDocuments (route) / chunkLegalSections (CLI)    *)

\* longest text given to a chunking function, in characters
MaxTextLen == 5
\* largest chunk size (maxChars, chunkSize) given to a chunking function
MaxSize == 3
\* most records in a CSV file whose chunk ids are computed
MaxRows == 3

\* A text is a sequence of characters: white space or a letter
TextChars == WhiteSpace \cup {"a", "b"}
Texts == UNION {[1..n -> TextChars] : n \in 0..MaxTextLen}

NoInput == [text |-> <<>>, size |-> 0]
NoOutput == [fn |-> "none", chunks |-> <<>>]

\* a variant of the window's chunk that keeps the window as it is
windowChunkUntrimmed(text, start, end) == SubSeq(text, start + 1, end)

\* text.slice(start, end).trim()
windowChunk(text, start, end) == trim(SubSeq(text, start + 1, end))

\* the while loop of chunkText, from offset start on
RECURSIVE chunkTextFrom(_, _, _)
chunkTextFrom(text, start, maxChars) ==
    IF start >= Len(text) THEN <<>>
    ELSE LET end == Min(start + maxChars, Len(text))
             chunk == windowChunk(text, start, end)
         IN  (IF chunk # <<>> THEN <<chunk>> ELSE <<>>)
             \o chunkTextFrom(text, end, maxChars)

chunkText(text, maxChars) == chunkTextFrom(text, 0, maxChars)

\* String.prototype.split(" "): the pieces between the spaces, empty pieces
\* included
RECURSIVE split(_)
split(s) ==
    IF \A k \in DOMAIN s : s[k] # " " THEN <<s>>
    ELSE LET k == CHOOSE j \in DOMAIN s : s[j] = " " /\ \A m \in 1..(j - 1) : s[m] # " "
         IN  <<SubSeq(s, 1, k - 1)>> \o split(SubSeq(s, k + 1, Len(s)))

\* `${section.id}_chunk_${chunkIndex}`: an id is a sequence of tokens, and
\* concatenating strings is concatenating their tokens
chunkId(id, chunkIndex) == id \o <<"_chunk_", ToString(chunkIndex)>>

\* a variant of splitWords that starts the next chunk empty, losing the word
\* that did not fit
RECURSIVE splitWordsDropping(_, _, _, _, _, _)
splitWordsDropping(words, k, currentChunk, chunkIndex, id, chunkSize) ==
    IF k > Len(words)
    THEN IF trim(currentChunk) # <<>>
         THEN <<[id |-> chunkId(id, chunkIndex), text |-> trim(currentChunk)]>>
         ELSE <<>>
    ELSE LET word == words[k] IN
         IF Len(currentChunk \o <<" ">> \o word) > chunkSize /\ Len(currentChunk) > 0
         THEN <<[id |-> chunkId(id, chunkIndex), text |-> trim(currentChunk)]>>
              \o splitWordsDropping(words, k + 1, <<>>, chunkIndex + 1, id, chunkSize)
         ELSE splitWordsDropping(words, k + 1,
                         currentChunk \o (IF currentChunk # <<>> THEN <<" ">> ELSE <<>>) \o word,
                         chunkIndex, id, chunkSize)

\* the loop `for (const word of words)` from word k on, and the final push
RECURSIVE splitWords(_, _, _, _, _, _)
splitWords(words, k, currentChunk, chunkIndex, id, chunkSize) ==
    IF k > Len(words)
    THEN IF trim(currentChunk) # <<>>
         THEN <<[id |-> chunkId(id, chunkIndex), text |-> trim(currentChunk)]>>
         ELSE <<>>
    ELSE LET word == words[k] IN
         IF Len(currentChunk \o <<" ">> \o word) > chunkSize /\ Len(currentChunk) > 0
         THEN <<[id |-> chunkId(id, chunkIndex), text |-> trim(currentChunk)]>>
              \o splitWords(words, k + 1, word, chunkIndex + 1, id, chunkSize)
         ELSE splitWords(words, k + 1,
                         currentChunk \o (IF currentChunk # <<>> THEN <<" ">> ELSE <<>>) \o word,
                         chunkIndex, id, chunkSize)

\* the body of the loop over the sections, for one section whose fullText has
\* been built
chunkSection(id, fullText, chunkSize) ==
    IF Len(fullText) <= chunkSize
    THEN <<[id |-> id, text |-> fullText]>>
    ELSE splitWords(split(fullText), 1, <<>>, 0, id, chunkSize)

\* chunkAndPrepareDocuments of the route; a section is [id, fullText], where
\* fullText stands for the template `${act} - Section ${section}: ...` filled
\* in, which the route trims
RECURSIVE chunkAndPrepareDocuments(_, _)
chunkAndPrepareDocuments(sections, chunkSize) ==
    IF sections = <<>> THEN <<>>
    ELSE chunkSection(Head(sections).id, trim(Head(sections).fullText), chunkSize)
         \o chunkAndPrepareDocuments(Tail(sections), chunkSize)

\* chunkLegalSections of the CLI: the same loop, the template is not trimmed
RECURSIVE chunkLegalSections(_, _)
chunkLegalSections(sections, chunkSize) ==
    IF sections = <<>> THEN <<>>
    ELSE chunkSection(Head(sections).id, Head(sections).fullText, chunkSize)
         \o chunkLegalSections(Tail(sections), chunkSize)

\* the texts the template can yield: it starts with the act's name, so it is
\* not empty and does not start with white space
isFullText(t) == t # <<>> /\ Head(t) \notin WhiteSpace

\* the id of the one section chunked on its own
oneId == <<"ipc", "_", "1">>

\* lib/upload.ts: chunkText(text, maxChars)
ChunkText ==
    /\ output = NoOutput
    /\ output' = [fn |-> "chunkText", chunks |-> chunkText(input.text, input.size)]
    /\ UNCHANGED <<env, ingestVars, chatVars, dataset, documents, input>>

\* the route chunks one section
ChunkRoute ==
    /\ output = NoOutput
    /\ isFullText(input.text)
    /\ output' = [fn |-> "chunkAndPrepareDocuments",
                  chunks |-> chunkAndPrepareDocuments(
                                 <<[id |-> oneId, fullText |-> input.text]>>, input.size)]
    /\ UNCHANGED <<env, ingestVars, chatVars, dataset, documents, input>>

\* the CLI chunks one section
ChunkCli ==
    /\ output = NoOutput
    /\ isFullText(input.text)
    /\ output' = [fn |-> "chunkLegalSections",
                  chunks |-> chunkLegalSections(
                                 <<[id |-> oneId, fullText |-> input.text]>>, input.size)]
    /\ UNCHANGED <<env, ingestVars, chatVars, dataset, documents, input>>

ChunkNext == ChunkText \/ ChunkRoute \/ ChunkCli

\* The records the CSV parser returns for one file: the `section` column (a
\* sequence of tokens, empty when the column is absent or blank) and the
\* text the template yields for the record
SectionValues == {<<>>, <<"0">>, <<"1">>, <<"0", "_chunk_", "0">>}
RecordTexts == {<<"a">>, <<"a", " ", "b">>}
Records == UNION {[1..n -> [section : SectionValues, text : RecordTexts]] : n \in 0..MaxRows}

\* actName.toLowerCase()
toLowerCase(a) ==
    CASE a = "IPC" -> "ipc" [] a = "BNS" -> "bns" [] a = "BSA" -> "bsa" [] a = "CrPC" -> "crpc"

\* records.map((record, index) => ({ id: `${actName.toLowerCase()}_${record.section || index}`, ... }))
\* with index counted from 0; an empty section is falsy
loadCSVFile(actName, records) ==
    [k \in DOMAIN records |->
        [id |-> <<toLowerCase(actName), "_">>
                  \o (IF records[k].section # <<>> THEN records[k].section
                      ELSE <<ToString(k - 1)>>),
         fullText |-> records[k].text]]

\* the route loads one CSV file and chunks its sections
CsvRoute ==
    /\ output = NoOutput
    /\ output' = [fn |-> "chunkAndPrepareDocuments",
                  chunks |-> chunkAndPrepareDocuments(
                                 loadCSVFile(input.act, input.records), input.size)]
    /\ UNCHANGED <<env, ingestVars, chatVars, dataset, documents, input>>

\* the CLI loads one CSV file and chunks its sections
CsvCli ==
    /\ output = NoOutput
    /\ output' = [fn |-> "chunkLegalSections",
                  chunks |-> chunkLegalSections(
                                 loadCSVFile(input.act, input.records), input.size)]
    /\ UNCHANGED <<env, ingestVars, chatVars, dataset, documents, input>>

CsvNext == CsvRoute \/ CsvCli

-----------------------------------------------------------------------------
(* Retrieval and answer assembly: retrieveWithPinecone and                 *)
(* answerLegalQuestion of lib/rag.ts, from the resolved query on           *)

\* longest text of an indexed document, in characters: one more than the
\* snippet length
MaxDocLen == 281

\* doc.text.slice(0, 280)
snippetLen == 280

\* A string is a sequence of tokens (characters, or whole literals of the
\* source), the empty sequence being "" and standing for an absent field
\* too: both are falsy.
ShortText == <<"W", "h", "o">>
LongText == [i \in 1..MaxDocLen |-> "x"]

\* the metadata of a match: any of its fields may be absent
Metadatas ==
    [id : {<<>>, <<"md">>}, text : {<<>>, ShortText}, content : {<<>>, <<"c">>},
     body : {<<>>, <<"b">>}, act : {<<>>, <<"IPC">>},
     section : {<<>>, <<"378">>}, title : {<<>>}]
    \cup
    [id : {<<>>}, text : {<<>>, ShortText, LongText}, content : {<<>>},
     body : {<<>>}, act : {<<"IPC">>},
     section : {<<"378">>}, title : {<<"Theft">>}]

\* the matches of a query response, in the index's ranking order; match k
\* has the vector id <<"v", k>>
MatchLists ==
    UNION {{[k \in 1..n |-> [id |-> <<"v", ToString(k)>>, metadata |-> md[k]]]
              : md \in [1..n -> Metadatas]} : n \in 0..MaxMatches}

\* a || b on strings
or(a, b) == IF a # <<>> THEN a ELSE b

\* a variant of docOf that resolves the text from metadata.text only
docOfTextOnly(match) ==
    LET metadata == match.metadata IN
    [id |-> or(metadata.id, match.id),
     act |-> or(metadata.act, <<"Unknown act">>),
     section |-> metadata.section,
     title |-> metadata.title,
     text |-> metadata.text]

\* the callback of matches.map
docOf(match) ==
    LET metadata == match.metadata IN
    [id |-> or(metadata.id, match.id),
     act |-> or(metadata.act, <<"Unknown act">>),
     section |-> metadata.section,
     title |-> metadata.title,
     text |-> or(metadata.text, or(metadata.content, or(metadata.body, <<>>)))]

\* .filter((doc) => doc.text)
docHasText(doc) == doc.text # <<>>

\* retrieveWithPinecone once index.query has resolved with the matches
retrieveResults(matches) ==
    IF Len(matches) = 0 THEN <<>>
    ELSE SelectSeq([k \in DOMAIN matches |-> docOf(matches[k])], docHasText)

\* index.query({topK: limit}) resolves with at most limit matches, and
\* retrieveWithPinecone returns
Retrieve ==
    /\ output = NoOutput
    /\ output' = [fn |-> "retrieveWithPinecone", docs |-> retrieveResults(input.matches)]
    /\ UNCHANGED <<env, ingestVars, chatVars, dataset, documents, input>>

RetrieveNext == Retrieve

\* the documents a retrieval can return to answerLegalQuestion when it goes
\* on to the completion: some document, each from a match
DocLists == {retrieveResults(m) : m \in MatchLists} \ {<<>>}

\* what the completion call resolves with: choices[0].message.content is
\* absent, or a text
Completions ==
    {[present |-> FALSE, content |-> <<>>]}
    \cup {[present |-> TRUE, content |-> c] : c \in {<<>>, <<" ">>, <<" ", "x", "\n">>}}

\* Array.prototype.join
RECURSIVE join(_, _)
join(parts, sep) ==
    IF parts = <<>> THEN <<>>
    ELSE IF Len(parts) = 1 THEN parts[1]
    ELSE parts[1] \o sep \o join(Tail(parts), sep)

\* .filter(Boolean) on strings
nonEmpty(t) == t # <<>>

\* a variant of headerParts that joins the three parts as they are
headerPartsUnfiltered(doc) ==
    join(<<doc.act,
           IF doc.section # <<>> THEN <<"Section ">> \o doc.section ELSE <<>>,
           doc.title>>, <<" - ">>)

\* [doc.act, doc.section && `Section ${doc.section}`, doc.title].filter(Boolean).join(" - ")
headerParts(doc) ==
    join(SelectSeq(<<doc.act,
                     IF doc.section # <<>> THEN <<"Section ">> \o doc.section ELSE <<>>,
                     doc.title>>, nonEmpty), <<" - ">>)

\* a variant of contextBlock that puts the text right after the header
contextBlockTight(doc) == headerParts(doc) \o doc.text

\* `${headerParts}\n\n${doc.text}`
contextBlock(doc) == headerParts(doc) \o <<"\n\n">> \o doc.text

\* contextBlocks.join("\n\n---\n\n")
contextOf(docs) ==
    join([k \in DOMAIN docs |-> contextBlock(docs[k])], <<"\n\n---\n\n">>)

\* the content of the user message of the completion call
userContent(trimmed, context) ==
    <<"User question: ">> \o trimmed \o <<"\n\nCONTEXT FROM LEGAL SECTIONS:\n">> \o context

\* a variant of snippetOf that keeps the whole text
snippetWhole(text) == text

\* doc.text.slice(0, 280)
snippetOf(text) == SubSeq(text, 1, Min(snippetLen, Len(text)))

\* topDocs.map((doc) => ({ id, act, section, title, snippet }))
sourcesOf(docs) ==
    [k \in DOMAIN docs |->
        [id |-> docs[k].id, act |-> docs[k].act, section |-> docs[k].section,
         title |-> docs[k].title, snippet |-> snippetOf(docs[k].text)]]

\* the fixed string answered when the completion has no text
FallbackAnswer == <<"I was unable to generate a detailed answer">>

\* completion.choices?.[0]?.message?.content?.trim(), then answer || fallback
answerOf(completion) ==
    IF completion.present /\ trim(completion.content) # <<>>
    THEN trim(completion.content)
    ELSE FallbackAnswer

\* answerLegalQuestion builds the context and issues the completion call
AssembleContext ==
    /\ output = NoOutput
    /\ output' = [fn |-> "context",
                  context |-> contextOf(input.docs),
                  userContent |-> userContent(input.question, contextOf(input.docs))]
    /\ UNCHANGED <<env, ingestVars, chatVars, dataset, documents, input>>

\* the completion call resolved: answerLegalQuestion returns its ChatResult
CompletionResolved ==
    /\ output.fn = "context"
    /\ output' = [fn |-> "answerLegalQuestion",
                  answer |-> answerOf(input.completion),
                  sources |-> sourcesOf(input.docs)]
    /\ UNCHANGED <<env, ingestVars, chatVars, dataset, documents, input>>

AnswerNext == AssembleContext \/ CompletionResolved

-----------------------------------------------------------------------------
(* The answer formatter: stripEmphasis and parseAssistantContent of        *)
(* components/Chat.tsx                                                     *)

\* most lines in a text given to the formatter
MaxLines == 4

\* The lines text.split(/\r?\n/) yields are drawn from these: a line is a
\* sequence of characters, a word without marker characters being one token
Lines ==
    { <<>>,
      <<" ">>,
      <<"#", "#", "#", " ", "Heading">>,
      <<"#", "#", "#", "#", "#", "#", "#", " ", "Heading">>,
      <<"#", " ", "*", "*", "bold", "*", "*">>,
      <<"Some", " ", "para.">>,
      <<"*", "*", "bold", "*", "*", " ", "and", " ", "*", "italic", "*">>,
      <<"-", " ", "item", " ", "one">>,
      <<"-", " ", "item", " ", "two">>,
      <<"*", " ", "*", "italic", "*">>,
      <<"1", ".", " ", " ", "first">> }

LineLists == UNION {[1..n -> Lines] : n \in 1..MaxLines}

\* the least element of a non-empty set of numbers
least(S) == CHOOSE n \in S : \A m \in S : n <= m

\* text.replace(/\*\*(.+?)\*\*/g, "$1"): the leftmost "**" that is closed by a
\* later "**" with something in between, closed by the nearest one; the scan
\* goes on after the closing marker
RECURSIVE replaceBold(_)
replaceBold(t) ==
    LET closings(i) == {j \in (i + 3)..(Len(t) - 1) : t[j] = "*" /\ t[j + 1] = "*"}
        openings == {i \in 1..(Len(t) - 1) :
                        t[i] = "*" /\ t[i + 1] = "*" /\ closings(i) # {}}
    IN  IF openings = {} THEN t
        ELSE LET i == least(openings)
                 j == least(closings(i))
             IN  SubSeq(t, 1, i - 1) \o SubSeq(t, i + 2, j - 1)
                 \o replaceBold(SubSeq(t, j + 2, Len(t)))

\* text.replace(/\*(.+?)\*/g, "$1")
RECURSIVE replaceItalic(_)
replaceItalic(t) ==
    LET closings(i) == {j \in (i + 2)..Len(t) : t[j] = "*"}
        openings == {i \in 1..Len(t) : t[i] = "*" /\ closings(i) # {}}
    IN  IF openings = {} THEN t
        ELSE LET i == least(openings)
                 j == least(closings(i))
             IN  SubSeq(t, 1, i - 1) \o SubSeq(t, i + 1, j - 1)
                 \o replaceItalic(SubSeq(t, j + 1, Len(t)))

stripEmphasis(text) == replaceItalic(replaceBold(text))

\* the number of leading characters of line that are in set
RECURSIVE leading(_, _)
leading(line, set) ==
    IF line = <<>> \/ Head(line) \notin set THEN 0 ELSE 1 + leading(Tail(line), set)

Digits == {"0", "1", "2", "3", "4", "5", "6", "7", "8", "9"}

\* line.match(/^(#{1,6})\s+(.*)$/): the match succeeds, and its second group
headingMatch(line) ==
    LET n == leading(line, {"#"}) IN
    n \in 1..6 /\ Len(line) > n /\ line[n + 1] \in WhiteSpace
headingGroup(line) ==
    trimStart(SubSeq(line, leading(line, {"#"}) + 1, Len(line)))

\* line.match(/^[-*+]\s+(.*)$/)
bulletMatch(line) ==
    Len(line) >= 2 /\ line[1] \in {"-", "*", "+"} /\ line[2] \in WhiteSpace
bulletGroup(line) == trimStart(SubSeq(line, 2, Len(line)))

\* line.match(/^\d+\.\s+(.*)$/)
orderedMatch(line) ==
    LET n == leading(line, Digits) IN
    n >= 1 /\ Len(line) >= n + 2 /\ line[n + 1] = "." /\ line[n + 2] \in WhiteSpace
orderedGroup(line) ==
    trimStart(SubSeq(line, leading(line, Digits) + 2, Len(line)))

\* listMatch = bulletMatch || orderedMatch, and listMatch[1]
listMatch(line) == bulletMatch(line) \/ orderedMatch(line)
listGroup(line) == IF bulletMatch(line) THEN bulletGroup(line) ELSE orderedGroup(line)

\* a parsed block; the fields its type does not have are empty
Heading(t) == [type |-> "heading", text |-> t, items |-> <<>>]
Paragraph(t) == [type |-> "paragraph", text |-> t, items |-> <<>>]
List(items) == [type |-> "list", text |-> <<>>, items |-> items]

\* currentList: null, or the items of the open list
Null == [open |-> FALSE, items |-> <<>>]

\* const blocks = []; let currentParagraph = []; let currentList = null
ParseStart ==
    [fn |-> "parseAssistantContent", k |-> 0, blocks |-> <<>>,
     currentParagraph |-> <<>>, currentList |-> Null, done |-> FALSE]

\* flushParagraph, on a scan state
flushParagraph(st) ==
    IF Len(st.currentParagraph) > 0
    THEN [st EXCEPT !.blocks = Append(@, Paragraph(join(st.currentParagraph, <<" ">>))),
                    !.currentParagraph = <<>>]
    ELSE st

\* flushList, on a scan state
flushList(st) ==
    IF st.currentList.open /\ Len(st.currentList.items) > 0
    THEN [st EXCEPT !.blocks = Append(@, List([k \in DOMAIN st.currentList.items |->
                                                 stripEmphasis(st.currentList.items[k])])),
                    !.currentList = Null]
    ELSE st

\* the scan is at a line: const line = rawLine.trim()
scanning == output.fn = "parseAssistantContent" /\ ~output.done /\ output.k < Len(input.lines)
line == trim(input.lines[output.k + 1])

\* if (!line): both accumulators are flushed
ScanBlank ==
    /\ scanning /\ line = <<>>
    /\ output' = [flushList(flushParagraph(output)) EXCEPT !.k = @ + 1]
    /\ UNCHANGED <<env, ingestVars, chatVars, dataset, documents, input>>

\* if (headingMatch): both accumulators are flushed and the heading pushed
ScanHeading ==
    /\ scanning /\ line # <<>> /\ headingMatch(line)
    /\ LET st == flushList(flushParagraph(output))
           headingText == stripEmphasis(trim(headingGroup(line)))
       IN  output' = [st EXCEPT !.k = @ + 1,
                         !.blocks = IF headingText # <<>>
                                    THEN Append(@, Heading(headingText)) ELSE @]
    /\ UNCHANGED <<env, ingestVars, chatVars, dataset, documents, input>>

\* a variant of ScanListLine that leaves the open paragraph as it is
ScanListLineNoFlush ==
    /\ scanning /\ line # <<>> /\ ~headingMatch(line) /\ listMatch(line)
    /\ output' = [output EXCEPT !.k = @ + 1,
                      !.currentList = [open |-> TRUE,
                                       items |-> Append(output.currentList.items,
                                                        trim(listGroup(line)))]]
    /\ UNCHANGED <<env, ingestVars, chatVars, dataset, documents, input>>

\* if (listMatch): the paragraph is flushed, the item pushed to the list
ScanListLine ==
    /\ scanning /\ line # <<>> /\ ~headingMatch(line) /\ listMatch(line)
    /\ LET st == flushParagraph(output)
       IN  output' = [st EXCEPT !.k = @ + 1,
                         !.currentList = [open |-> TRUE,
                                          items |-> Append(st.currentList.items,
                                                           trim(listGroup(line)))]]
    /\ UNCHANGED <<env, ingestVars, chatVars, dataset, documents, input>>

\* a variant of ScanContinuation that starts a paragraph in any case
ScanContinuationToParagraph ==
    /\ scanning /\ line # <<>> /\ ~headingMatch(line) /\ ~listMatch(line)
    /\ output' = [output EXCEPT !.k = @ + 1, !.currentParagraph = Append(@, line)]
    /\ UNCHANGED <<env, ingestVars, chatVars, dataset, documents, input>>

\* any other line: appended to the last item of the open list, else pushed
\* to the paragraph
ScanContinuation ==
    /\ scanning /\ line # <<>> /\ ~headingMatch(line) /\ ~listMatch(line)
    /\ IF output.currentList.open
       THEN LET lastIndex == Len(output.currentList.items)
            IN  output' = [output EXCEPT !.k = @ + 1,
                              !.currentList.items[lastIndex] = @ \o <<" ">> \o line]
       ELSE output' = [output EXCEPT !.k = @ + 1, !.currentParagraph = Append(@, line)]
    /\ UNCHANGED <<env, ingestVars, chatVars, dataset, documents, input>>

\* after the loop: flushParagraph(); flushList(); return blocks
ScanEnd ==
    /\ output.fn = "parseAssistantContent" /\ ~output.done
    /\ output.k = Len(input.lines)
    /\ output' = [flushList(flushParagraph(output)) EXCEPT !.done = TRUE]
    /\ UNCHANGED <<env, ingestVars, chatVars, dataset, documents, input>>

ParseNext == ScanBlank \/ ScanHeading \/ ScanListLine \/ ScanContinuation \/ ScanEnd

\* no load and no chunking call
OfflineIdle ==
    /\ dataset = NoDataset
    /\ documents = NotLoaded
    /\ input = NoInput
    /\ output = NoOutput

-----------------------------------------------------------------------------
(* Specifications *)

\* One ingestion run of any kind, against an index that is empty or holds a
\* stale vector; the chat route is idle.
Init ==
    /\ env \in Envs
    /\ index \in {{}, StaleIndex}
    /\ corpus \in 0..MaxChunks
    /\ \E k \in Kinds, c \in BOOLEAN :
         /\ (k = "upload" => ~c)
         /\ run = [r \in Runs |-> IF r = "A" THEN NewRun(k, c) ELSE OffRun]
    /\ ChatIdle
    /\ OfflineIdle

Next == IngestNext

Spec == Init /\ [][Next]_vars

\* The chat route of one process serving up to MaxRequests requests, two of
\* them at a time; no ingestion run.
ChatInit ==
    /\ env \in Envs
    /\ IngestIdle
    /\ ChatIdle
    /\ OfflineIdle

\* One retrieval: the query asked for `limit` matches and the index answered
\* with at most that many.
RetrieveInit ==
    /\ env = [openai |-> "ok", pineconeKey |-> TRUE, pineconeIndex |-> TRUE]
    /\ IngestIdle
    /\ ChatIdle
    /\ dataset = NoDataset
    /\ documents = NotLoaded
    /\ \E limit \in 1..MaxMatches :
         \E m \in MatchLists :
            /\ Len(m) <= limit
            /\ input = [matches |-> m, limit |-> limit]
    /\ output = NoOutput

RetrieveSpec == RetrieveInit /\ [][RetrieveNext]_vars

\* One answer assembled from the documents of a retrieval and the outcome of
\* the completion call, for the trimmed question "x".
AnswerInit ==
    /\ env = [openai |-> "ok", pineconeKey |-> TRUE, pineconeIndex |-> TRUE]
    /\ IngestIdle
    /\ ChatIdle
    /\ dataset = NoDataset
    /\ documents = NotLoaded
    /\ input \in [docs : DocLists, question : {<<"x">>}, completion : Completions]
    /\ output = NoOutput

AnswerSpec == AnswerInit /\ [][AnswerNext]_vars

\* One call of parseAssistantContent, line by line.
ParseInit ==
    /\ env = [openai |-> "ok", pineconeKey |-> TRUE, pineconeIndex |-> TRUE]
    /\ IngestIdle
    /\ ChatIdle
    /\ dataset = NoDataset
    /\ documents = NotLoaded
    /\ input \in [lines : LineLists]
    /\ output = ParseStart

ParseSpec == ParseInit /\ [][ParseNext]_vars

\* corpus sizes of no batch, one batch, a full batch, two and three batches
ConcCorpora == {0, 1, batchSize, batchSize + 1, MaxChunks}

\* Two runs of the indexing route or of the CLI started at the same time over
\* the same corpus, each with or without clearExisting; the environment is
\* valid.
ConcInit ==
    /\ env = [openai |-> "ok", pineconeKey |-> TRUE, pineconeIndex |-> TRUE]
    /\ index \in {{}, StaleIndex}
    /\ corpus \in ConcCorpora
    /\ \E k \in [Runs -> {"route", "cli"}], c \in [Runs -> BOOLEAN] :
         run = [r \in Runs |-> NewRun(k[r], c[r])]
    /\ ChatIdle
    /\ OfflineIdle

ConcSpec == ConcInit /\ [][ConcNext]_vars

\* Two ingestion runs of the same kind and flags in sequence, over the same
\* corpus; the chat route is idle.
SeqNext == IngestNext \/ SecondRun

SeqSpec == Init /\ [][SeqNext]_vars

ChatSpec == ChatInit /\ [][ChatNext]_vars

\* One load of a dataset directory, by the route or by the CLI.
LoadInit ==
    /\ env = [openai |-> "ok", pineconeKey |-> TRUE, pineconeIndex |-> TRUE]
    /\ IngestIdle
    /\ ChatIdle
    /\ dataset \in Datasets
    /\ documents = NotLoaded
    /\ input = NoInput
    /\ output = NoOutput

LoadSpec == LoadInit /\ [][LoadNext]_vars

\* One call of a chunking function on one text.
ChunkInit ==
    /\ env = [openai |-> "ok", pineconeKey |-> TRUE, pineconeIndex |-> TRUE]
    /\ IngestIdle
    /\ ChatIdle
    /\ dataset = NoDataset
    /\ documents = NotLoaded
    /\ input \in [text : Texts, size : 1..MaxSize]
    /\ output = NoOutput

ChunkSpec == ChunkInit /\ [][ChunkNext]_vars

\* One CSV file loaded and chunked, by the route or by the CLI.
CsvInit ==
    /\ env = [openai |-> "ok", pineconeKey |-> TRUE, pineconeIndex |-> TRUE]
    /\ IngestIdle
    /\ ChatIdle
    /\ dataset = NoDataset
    /\ documents = NotLoaded
    /\ input \in [act : Acts, records : Records, size : 1..MaxSize]
    /\ output = NoOutput

CsvSpec == CsvInit /\ [][CsvNext]_vars

-----------------------------------------------------------------------------
(* What the call log of a run says *)

numBatches(n) == (n + batchSize - 1) \div batchSize

\* the chunk ordinals of batch number b of a run of n chunks
idsOfBatch(b, n) == {c \in 1..n : (c - 1) \div batchSize + 1 = b}

logged(r, e) == \E k \in DOMAIN run[r].calls : run[r].calls[k] = e

\* the batch's attempt resolved with a failure of its embed or upsert call
batchFailedIn(r, b) == logged(r, Ev("embed", b, "fail")) \/ logged(r, Ev("upsert", b, "fail"))

\* the batch's embed call and upsert call both succeeded
batchOkIn(r, b) == logged(r, Ev("embed", b, "ok")) /\ logged(r, Ev("upsert", b, "ok"))

failedBatches(r) == {b \in 1..numBatches(run[r].chunks) : batchFailedIn(r, b)}
okBatches(r) == {b \in 1..numBatches(run[r].chunks) : batchOkIn(r, b)}

chunksOfOkBatches(r) == UNION {idsOfBatch(b, run[r].chunks) : b \in okBatches(r)}

\* positions of the log holding an embed or upsert call not yet resolved
inFlight(r) ==
    LET c == run[r].calls IN
    {k \in DOMAIN c :
        /\ c[k].op \in {"embed", "upsert"} /\ c[k].ev = "call"
        /\ ~\E j \in DOMAIN c :
              j > k /\ c[j].op = c[k].op /\ c[j].batch = c[k].batch /\ c[j].ev # "call"}

\* the run touched the corpus or the services after its pre-flight
loadedOrIndexed(r) ==
    \E k \in DOMAIN run[r].calls : run[r].calls[k].op \in {"load", "embed", "upsert"}

-----------------------------------------------------------------------------
(* Claims *)

\* C1: in every bulk-indexing run (route, cli, upload), once the embed or the
\* upsert call of a batch has failed, the failure is recorded and every batch
\* of the run is still attempted: a finished run has issued the embed call of
\* each of its batches.
C1_BatchFailureNeverAborts ==
    \A r \in Runs :
        (run[r].pc = "done" /\ failedBatches(r) # {})
            => \A b \in 1..numBatches(run[r].chunks) : logged(r, Ev("embed", b, "call"))

\* C2: the result an ingestion run returns counts in totalIndexed the chunks
\* of the batches that did not fail, and its error list has exactly one entry
\* per failed batch, naming that batch.
C2_OneErrorPerFailedBatch ==
    \A r \in Runs :
        run[r].hasSummary =>
            /\ run[r].summary.totalIndexed
                 = run[r].chunks - Cardinality(UNION {idsOfBatch(b, run[r].chunks)
                                                        : b \in failedBatches(r)})
            /\ Len(run[r].summary.errors) = Cardinality(failedBatches(r))
            /\ {run[r].summary.errors[k] : k \in DOMAIN run[r].summary.errors}
                 = failedBatches(r)

\* C8: within a run the batches are attempted in source order and one at a
\* time: the embed call of batch b > 1 is issued only after the attempt of
\* batch b - 1 has resolved (its embed failed, or its upsert succeeded or
\* failed), embed calls are issued in increasing batch order, and at most one
\* embed or upsert call is in flight.
C8_BatchesSequential ==
    \A r \in Runs :
        LET c == run[r].calls IN
        /\ Cardinality(inFlight(r)) <= 1
        /\ \A k \in DOMAIN c :
             (c[k].op = "embed" /\ c[k].ev = "call") =>
               /\ \A j \in 1..(k - 1) :
                    (c[j].op = "embed" /\ c[j].ev = "call") => c[j].batch < c[k].batch
               /\ c[k].batch > 1 =>
                    \E j \in 1..(k - 1) :
                       /\ c[j].batch = c[k].batch - 1
                       /\ \/ (c[j].op = "embed" /\ c[j].ev = "fail")
                          \/ (c[j].op = "upsert" /\ c[j].ev \in {"ok", "fail"})

\* a run whose first batch failed and whose second batch was then issued
C8_Witness ==
    \E r \in Runs :
        /\ batchFailedIn(r, 1)
        /\ logged(r, Ev("upsert", 2, "call"))

\* C9: at every point of a run totalIndexed is the number of chunks in the
\* batches whose embed and upsert both succeeded so far; it never exceeds the
\* number of chunks, a failed batch adds nothing, and the summary reports it.
C9_TotalIndexedCountsOkBatches ==
    \A r \in Runs :
        /\ run[r].totalIndexed = Cardinality(chunksOfOkBatches(r))
        /\ run[r].totalIndexed <= run[r].chunks
        /\ run[r].hasSummary => run[r].summary.totalIndexed = run[r].totalIndexed

\* a finished run of three batches, the second failed, the last one partial
C9_Witness ==
    \E r \in Runs :
        /\ run[r].pc = "done" /\ run[r].hasSummary
        /\ okBatches(r) = {1, 3} /\ failedBatches(r) = {2}
        /\ run[r].totalIndexed = run[r].chunks - batchSize
        /\ run[r].totalIndexed > batchSize

\* C10: with clearExisting set, the corpus load and every embed and upsert
\* call of the run come after the clear-all has completed; and when the
\* clear-all fails the run ends in failure (500, exit 1) with no summary and
\* without any corpus load, embed call or upsert.
C10_ClearFirstOrFail ==
    \A r \in Runs :
        run[r].clear =>
            LET c == run[r].calls IN
            /\ \A k \in DOMAIN c :
                 c[k].op \in {"load", "embed", "upsert"} =>
                    \E j \in 1..(k - 1) : c[j] = Ev("deleteAll", 0, "ok")
            /\ logged(r, Ev("deleteAll", 0, "fail")) =>
                 /\ run[r].pc = "done"
                 /\ run[r].status = failStatus(run[r].kind)
                 /\ ~run[r].hasSummary
                 /\ ~loadedOrIndexed(r)

\* a run with clearExisting whose clear-all failed
C10_Witness ==
    \E r \in Runs :
        /\ run[r].clear /\ run[r].pc = "done"
        /\ logged(r, Ev("deleteAll", 0, "fail"))

-----------------------------------------------------------------------------
(* Claims about the chat route *)

blank(q) == req[q].body.json /\ trim(req[q].body.question) = <<>>
nonBlank(q) == req[q].body.json /\ trim(req[q].body.question) # <<>>

\* C3: when the index returns zero matches for a non-empty question, or the
\* question embedding or the index query fails, answerLegalQuestion returns
\* (does not throw) the fixed "could not find" answer with no sources, and no
\* completion call is made; the route answers it with status 200.
C3_RetrievalFailureDegrades ==
    \A q \in ReqSlots :
        req[q].retrieval \in {"no_match", "embed_failed", "query_failed"} =>
            /\ req[q].outcome = "returned"
            /\ req[q].answer = "CouldNotFind"
            /\ req[q].sources = <<>>
            /\ "completion" \notin req[q].ext
            /\ req[q].via = "route" => req[q].status = "200"

\* both slots served by the route, one with zero matches, one with a failed
\* index query
C3_Witness ==
    /\ req["a"].via = "route" /\ req["a"].retrieval = "no_match"
    /\ req["b"].via = "route" /\ req["b"].retrieval = "query_failed"
    /\ nonBlank("a") /\ nonBlank("b")

\* C4: an empty or whitespace-only question performs no external call (index
\* stats, embedding, index query, completion) for its request, on the first
\* request of the process as well as on later ones, and, the environment
\* being valid, it is rejected as invalid input (400 from the route, a throw
\* from answerLegalQuestion).
C4_BlankQuestionNoExternalCall ==
    \A q \in ReqSlots :
        (blank(q) /\ req[q].via # "none") =>
            /\ req[q].ext = {}
            /\ (req[q].pc = "done" /\ envValid(env)) =>
                 IF req[q].via = "route" THEN req[q].status = "400"
                 ELSE req[q].outcome = "threw"

\* C5: when the vector index is not configured, a chat request with a
\* non-empty question is answered 200 with the fixed explanatory message and
\* no sources, without any embedding, query or completion call.
C5_NotConfiguredDegrades ==
    \A q \in ReqSlots :
        (req[q].via = "route" /\ nonBlank(q) /\ ~pineconeConfigured(env)
         /\ req[q].pc = "done") =>
            /\ req[q].status = "200"
            /\ req[q].answer = "NotConfigured"
            /\ req[q].sources = <<>>
            /\ req[q].ext \cap {"embed", "query", "completion"} = {}

\* C6: when at least one document was retrieved and the completion call
\* fails, answerLegalQuestion throws (no ChatResult, degraded or not, is
\* returned) and the route answers with status 500, never 200.
C6_CompletionFailurePropagates ==
    \A q \in ReqSlots :
        (req[q].docs # <<>> /\ req[q].completion = "failed") =>
            /\ req[q].outcome = "threw"
            /\ req[q].answer = "none"
            /\ req[q].sources = <<>>
            /\ req[q].via = "route" => req[q].status = "500"

\* a route request whose completion call failed after documents were retrieved
C6_Witness ==
    \E q \in ReqSlots :
        /\ req[q].via = "route" /\ req[q].pc = "done"
        /\ req[q].docs # <<>> /\ req[q].completion = "failed"

\* C7: the initialization of the chat route (environment validation plus
\* initLegalIndex) runs at most once per process lifetime, for every
\* interleaving of chat requests.
C7_InitAtMostOnce == initCalls <= 1

-----------------------------------------------------------------------------
(* C11..C20: preflight, corpus loading, chunking, chunk ids, idempotence *)

\* run r is a run of the indexing route or of the CLI that has gone through
\* its start, in a process whose environment validateEnvironment rejects
validationFailed(r) ==
    /\ run[r].kind \in {"route", "cli"}
    /\ run[r].pc # "start"
    /\ validateEnvironment(env) # <<>>

\* C11: when environment validation fails, a run of the indexing route or
\* of the CLI ends at once (400, or 500 for an unreadable body, or exit 1):
\* it issues no clear-all, no corpus load, no embedding and no upsert call,
\* and no step taken in that process changes the vector index.
C11_ValidationFailureStopsRun ==
    /\ [](\A r \in Runs : validationFailed(r) =>
            /\ run[r].pc = "done"
            /\ run[r].status \in {"400", "500", "exit1"}
            /\ \A k \in DOMAIN run[r].calls :
                  run[r].calls[k] = Ev("validate", 0, "fail"))
    /\ [][(validateEnvironment(env) # <<>>
            /\ \E r \in Runs : run[r].kind \in {"route", "cli"})
           => index' = index]_vars

\* a route run asked to clear a non-empty index was refused on validation:
\* the stale vector is still there
C11_Witness ==
    /\ run["A"].kind = "route" /\ run["A"].clear
    /\ run["A"].pc = "done" /\ run["A"].status = "400"
    /\ logged("A", Ev("validate", 0, "fail"))
    /\ index = StaleIndex

\* the calls of run r that go to the vector index
indexOps == {"connect", "deleteAll", "upsert", "stats"}

\* the vector index did not answer run r: the run called it and every call
\* that resolved failed
indexUnreachable(r) ==
    /\ \E k \in DOMAIN run[r].calls :
          run[r].calls[k].op \in indexOps /\ run[r].calls[k].ev = "fail"
    /\ \A k \in DOMAIN run[r].calls :
          run[r].calls[k].op \in indexOps => run[r].calls[k].ev # "ok"

\* C12: a run of the indexing route or of the CLI that finds the vector
\* index unreachable fails before it starts: it has not loaded the corpus and
\* has issued no embedding and no upsert call.
C12_UnreachableIndexFailsBeforeStart ==
    \A r \in Runs :
        (run[r].kind \in {"route", "cli"} /\ indexUnreachable(r)) =>
            /\ run[r].pc = "done"
            /\ run[r].status \in {"500", "exit1"}
            /\ ~loadedOrIndexed(r)

\* the load of the dataset has been made
loadDone == documents.by # "none"

\* C13: a load skips what it cannot read and goes on: a missing CSV file and
\* a CSV or JSON file that fails to parse do not fail the load, every CSV
\* file that parses is loaded, and so is every parsable JSON file (among the
\* first jsonLimit ones, the files every load looks at).
C13_UnreadableSourcesSkipped ==
    loadDone =>
        /\ documents.status = "ok"
        /\ \A a \in Acts : dataset.csv[a] = "ok" => a \in documents.csv
        /\ \A f \in 1..Min(dataset.json.n, jsonLimit) :
              f \notin dataset.json.bad => f \in documents.json

\* C14: when no source fails the load, it returns every configured source:
\* each of the four CSV files that exists and every parsable .json file of
\* the dataset directory, whatever their number.
C14_EverySourceLoaded ==
    (loadDone /\ documents.status = "ok") =>
        /\ documents.csv = {a \in Acts : dataset.csv[a] # "missing"}
        /\ documents.json = {f \in 1..dataset.json.n : f \notin dataset.json.bad}

\* the concatenation of a sequence of texts
RECURSIVE concat(_)
concat(ts) == IF ts = <<>> THEN <<>> ELSE Head(ts) \o concat(Tail(ts))

\* the characters of a text that are not white space, in order
isInk(c) == c \notin WhiteSpace
ink(t) == SelectSeq(t, isInk)

\* a text without leading or trailing white space
isTrimmed(t) == t = <<>> \/ (t[1] \notin WhiteSpace /\ t[Len(t)] \notin WhiteSpace)

\* C15: for every text T and every M > 0, each chunk of chunkText(T, M) is
\* non-empty, has no leading or trailing white space and is at most M long,
\* and the chunks, concatenated, hold the non-whitespace characters of T in
\* order.
C15_FixedWindowChunks ==
    output.fn = "chunkText" =>
        /\ \A k \in DOMAIN output.chunks :
              /\ output.chunks[k] # <<>>
              /\ isTrimmed(output.chunks[k])
              /\ Len(output.chunks[k]) <= input.size
        /\ ink(concat(output.chunks)) = ink(input.text)

\* a text cut into several windows, one of them shortened by the trim and
\* one of them all white space and dropped
C15_Witness ==
    /\ output.fn = "chunkText"
    /\ Len(output.chunks) >= 2
    /\ Len(output.chunks) * input.size < Len(input.text)
    /\ \E k \in DOMAIN output.chunks : Len(output.chunks[k]) < input.size
    /\ \E k \in DOMAIN output.chunks : Len(output.chunks[k]) > 1

\* the call was one of the word-aware splitter, route or CLI
splitterCalled == output.fn \in {"chunkAndPrepareDocuments", "chunkLegalSections"}

\* the text the splitter works on: the route trims the filled-in template
sourceText ==
    IF output.fn = "chunkAndPrepareDocuments" THEN trim(input.text) ELSE input.text

\* C16: every chunk the word-aware splitter returns has a text at most
\* chunkSize long, also for a record holding a word longer than chunkSize.
C16_ChunkWithinSize ==
    splitterCalled =>
        \A k \in DOMAIN output.chunks : Len(output.chunks[k].text) <= input.size

\* C17: no chunk the word-aware splitter returns has a text that is empty
\* after trimming, whether pushed inside the loop or after it.
C17_NoEmptyChunk ==
    splitterCalled =>
        \A k \in DOMAIN output.chunks : trim(output.chunks[k].text) # <<>>

\* the words of the chunks, in chunk order
RECURSIVE wordsOf(_)
wordsOf(cs) == IF cs = <<>> THEN <<>> ELSE split(Head(cs).text) \o wordsOf(Tail(cs))

\* the words of ws that keep a character once trimmed, each trimmed
RECURSIVE inkWords(_)
inkWords(ws) ==
    IF ws = <<>> THEN <<>>
    ELSE (IF trim(Head(ws)) # <<>> THEN <<trim(Head(ws))>> ELSE <<>>) \o inkWords(Tail(ws))

\* C18 as stated: the space-separated words of the chunks, read in chunk
\* order, are exactly the space-separated words of the source text.
C18_WordsExactlyKept ==
    splitterCalled => wordsOf(output.chunks) = split(sourceText)

\* C18, amended: up to the white space the trim removes (empty words and
\* words of line breaks vanish at a chunk's ends, a word loses the line
\* breaks at its own end there), the words of the chunks, read in chunk
\* order, are exactly the words of the source text: no word is split,
\* dropped, duplicated or reordered.
C18_WordsKeptUpToTrim ==
    splitterCalled => inkWords(wordsOf(output.chunks)) = inkWords(split(sourceText))

\* a text of three words split into two chunks or more, one of them of two
\* words
C18_Witness ==
    /\ splitterCalled
    /\ Len(output.chunks) >= 2
    /\ Len(inkWords(split(sourceText))) >= 3
    /\ \E k \in DOMAIN output.chunks : Len(split(output.chunks[k].text)) >= 2

\* C19: the chunks of one run have pairwise distinct ids, whether two chunks
\* come from the same record or from two records of the loaded corpus.
C19_ChunkIdsUnique ==
    splitterCalled =>
        \A j, k \in DOMAIN output.chunks :
            j # k => output.chunks[j].id # output.chunks[k].id

\* the external services answered the second run as they answered the first:
\* the two call logs are the same
sameAnswers == run["A"].calls = run["B"].calls

\* both runs were asked to clear the index first and have ended
bothCleared ==
    /\ run["A"].clear /\ run["A"].pc = "done"
    /\ run["B"].clear /\ run["B"].pc = "done"

\* C20: ingestion run twice in sequence with clearExisting on an unchanged
\* corpus, the services answering the same way both times, reports the same
\* final vectorCount both times.  The count owes nothing to what the index
\* held before the run: it is at most the run's totalIndexed.
C20_ClearingRunIdempotent ==
    (bothCleared /\ sameAnswers) =>
        /\ run["A"].hasSummary = run["B"].hasSummary
        /\ run["A"].summary.vectorCount = run["B"].summary.vectorCount
        /\ \A r \in Runs : run[r].summary.vectorCount <= run[r].summary.totalIndexed

\* two route runs over a corpus of two batches or more: batch 1 failed both
\* times, a later batch went through, and the index holds no stale vector
C20_Witness ==
    /\ bothCleared /\ sameAnswers
    /\ run["A"].hasSummary /\ run["B"].hasSummary
    /\ batchFailedIn("A", 1)
    /\ run["B"].summary.vectorCount > 0
    /\ 0 \notin index

-----------------------------------------------------------------------------
(* C21..C30: retrieval, answer assembly, the answer formatter, concurrent  *)
(* runs, the latch, the destructive clear                                  *)

\* the matches of the query whose metadata holds a text, a content or a body
matchesWithText ==
    {k \in DOMAIN input.matches :
        \/ input.matches[k].metadata.text # <<>>
        \/ input.matches[k].metadata.content # <<>>
        \/ input.matches[k].metadata.body # <<>>}

\* the j-th of them in ranking order
nthWithText(j) ==
    CHOOSE k \in matchesWithText : Cardinality({i \in matchesWithText : i < k}) = j - 1

\* C21: retrieveWithPinecone(question, k) returns at most k documents: one
\* per match whose metadata has a text, a content or a body, in the order of
\* the matches, each with a non-empty text taken from the first of these
\* fields that is present, and with the act "Unknown act" when the metadata
\* has none.
C21_RetrievedDocs ==
    output.fn = "retrieveWithPinecone" =>
        /\ Len(output.docs) <= input.limit
        /\ Len(output.docs) = Cardinality(matchesWithText)
        /\ \A j \in DOMAIN output.docs :
              LET md == input.matches[nthWithText(j)].metadata
                  doc == output.docs[j]
              IN  /\ doc.text # <<>>
                  /\ doc.text \in {md.text, md.content, md.body}
                  /\ md.text # <<>> => doc.text = md.text
                  /\ (md.text = <<>> /\ md.content # <<>>) => doc.text = md.content
                  /\ doc.act = (IF md.act = <<>> THEN <<"Unknown act">> ELSE md.act)

\* a match without text was dropped and a document was kept that has no act
\* and takes its text from `body`
C21_Witness ==
    /\ output.fn = "retrieveWithPinecone"
    /\ Len(output.docs) >= 1
    /\ Len(output.docs) < Len(input.matches)
    /\ \E j \in DOMAIN output.docs :
          output.docs[j].act = <<"Unknown act">> /\ output.docs[j].text = <<"b">>

\* p occurs in s as a run of consecutive tokens
isSubstring(p, s) ==
    \E i \in 0..(Len(s) - Len(p)) : SubSeq(s, i + 1, i + Len(p)) = p

\* the retrieved document has the act IPC, the section 378 and the title Theft
isTheft(doc) ==
    doc.act = <<"IPC">> /\ doc.section = <<"378">> /\ doc.title = <<"Theft">>

\* C22 as stated: for a document with act IPC, section 378 and title Theft,
\* the context holds "IPC - Section 378: Theft" immediately followed by the
\* document's text.
C22_HeaderWithColon ==
    output.fn = "context" =>
        \A k \in DOMAIN input.docs :
            isTheft(input.docs[k]) =>
                isSubstring(<<"IPC", " - ", "Section ", "378", ": ", "Theft">>
                                \o input.docs[k].text, output.context)

\* C22, amended: for such a document the context holds
\* "IPC - Section 378 - Theft", then a blank line, then the document's text;
\* the header of a document with the three parts reads
\* `<act> - Section <section> - <title>`.
C22_HeaderWithDashes ==
    output.fn = "context" =>
        \A k \in DOMAIN input.docs :
            isTheft(input.docs[k]) =>
                isSubstring(<<"IPC", " - ", "Section ", "378", " - ", "Theft", "\n\n">>
                                \o input.docs[k].text, output.context)

\* the context was assembled for a document IPC / 378 / Theft that is not
\* the only one retrieved
C22_Witness ==
    /\ output.fn = "context"
    /\ Len(input.docs) >= 2
    /\ \E k \in DOMAIN input.docs : isTheft(input.docs[k])

\* the header the claim describes: the act, then "Section " and the section
\* when there is one, then the title when there is one, joined with " - "
claimedHeader(doc) ==
    doc.act
    \o (IF doc.section # <<>> THEN <<" - ", "Section ">> \o doc.section ELSE <<>>)
    \o (IF doc.title # <<>> THEN <<" - ">> \o doc.title ELSE <<>>)

\* the blocks of the claim for the documents from the k-th on, each but the
\* last followed by the separator
RECURSIVE claimedBlocks(_, _)
claimedBlocks(docs, k) ==
    IF k > Len(docs) THEN <<>>
    ELSE claimedHeader(docs[k]) \o <<"\n\n">> \o docs[k].text
         \o (IF k < Len(docs) THEN <<"\n\n---\n\n">> ELSE <<>>)
         \o claimedBlocks(docs, k + 1)

\* C23: the context is one block per retrieved document, in retrieval order,
\* each made of the header (absent parts omitted) and the full text, the
\* blocks separated by a "---" line; the user message of the completion call
\* ends with that context.
C23_ContextBlocks ==
    output.fn = "context" =>
        /\ output.context = claimedBlocks(input.docs, 1)
        /\ Len(output.userContent) >= Len(output.context)
        /\ SubSeq(output.userContent,
                  Len(output.userContent) - Len(output.context) + 1,
                  Len(output.userContent)) = output.context

\* a context of two blocks, one whose document has neither section nor
\* title and one whose document has a section
C23_Witness ==
    /\ output.fn = "context"
    /\ Len(input.docs) >= 2
    /\ \E k \in DOMAIN input.docs :
          input.docs[k].section = <<>> /\ input.docs[k].title = <<>>
    /\ \E k \in DOMAIN input.docs : input.docs[k].section # <<>>

\* C24: when the completion call succeeds the result has one source per
\* retrieved document, in retrieval order, with the document's id, act,
\* section and title and the first snippetLen characters of its text as
\* snippet; the source list is not empty; the answer is the trimmed
\* completion text, or the fallback when that text is empty or absent.
C24_SourcesAndAnswer ==
    output.fn = "answerLegalQuestion" =>
        /\ Len(output.sources) = Len(input.docs)
        /\ Len(output.sources) >= 1
        /\ \A k \in DOMAIN input.docs :
              LET doc == input.docs[k]
                  src == output.sources[k]
              IN  /\ src.id = doc.id /\ src.act = doc.act
                  /\ src.section = doc.section /\ src.title = doc.title
                  /\ Len(src.snippet) = Min(snippetLen, Len(doc.text))
                  /\ \A i \in DOMAIN src.snippet : src.snippet[i] = doc.text[i]
        /\ IF input.completion.present /\ ink(input.completion.content) # <<>>
           THEN /\ isTrimmed(output.answer)
                /\ isSubstring(output.answer, input.completion.content)
                /\ ink(output.answer) = ink(input.completion.content)
           ELSE output.answer = FallbackAnswer

\* a result for a document longer than the snippet and a completion that
\* came back with white space around its text
C24_Witness ==
    /\ output.fn = "answerLegalQuestion"
    /\ \E k \in DOMAIN input.docs : Len(input.docs[k].text) > snippetLen
    /\ input.completion.present
    /\ output.answer # FallbackAnswer
    /\ output.answer # input.completion.content

\* the block that closes the open paragraph or list of the claim's reading,
\* if one is open
closed(open, acc) ==
    IF open = "paragraph" THEN <<Paragraph(join(acc, <<" ">>))>>
    ELSE IF open = "list" THEN <<List(acc)>>
    ELSE <<>>

\* The blocks as the claim describes them, for the lines ls still to read,
\* with what is open (nothing, a paragraph, a list), its lines or items, and
\* the blocks emitted so far; texts are kept as written
RECURSIVE claimedParse(_, _, _, _)
claimedParse(ls, open, acc, blocks) ==
    IF ls = <<>> THEN blocks \o closed(open, acc)
    ELSE LET l == trim(Head(ls)) IN
         IF l = <<>>
         THEN claimedParse(Tail(ls), "none", <<>>, blocks \o closed(open, acc))
         ELSE IF headingMatch(l)
         THEN claimedParse(Tail(ls), "none", <<>>,
                           blocks \o closed(open, acc) \o <<Heading(trim(headingGroup(l)))>>)
         ELSE IF listMatch(l)
         THEN IF open = "list"
              THEN claimedParse(Tail(ls), "list", Append(acc, trim(listGroup(l))), blocks)
              ELSE claimedParse(Tail(ls), "list", <<trim(listGroup(l))>>,
                                blocks \o closed(open, acc))
         ELSE IF open = "list"
              THEN claimedParse(Tail(ls), "list",
                                [acc EXCEPT ![Len(acc)] = @ \o <<" ">> \o l], blocks)
              ELSE claimedParse(Tail(ls), "paragraph", Append(acc, l), blocks)

\* blocks with the emphasis markers of every text and item taken out
unmarked(blocks) ==
    [k \in DOMAIN blocks |->
        [type |-> blocks[k].type,
         text |-> stripEmphasis(blocks[k].text),
         items |-> [i \in DOMAIN blocks[k].items |-> stripEmphasis(blocks[k].items[i])]]]

\* the text "### Heading\nSome para.\n- item one\n- item two"
exampleLines ==
    << <<"#", "#", "#", " ", "Heading">>, <<"Some", " ", "para.">>,
       <<"-", " ", "item", " ", "one">>, <<"-", " ", "item", " ", "two">> >>

\* C25: parseAssistantContent returns the blocks in the order of the lines:
\* a heading line closes what is open and gives a heading, a blank line
\* closes what is open, consecutive marker lines give one list with one item
\* each, a plain line goes to the last item of the open list or else to the
\* paragraph, whose lines are joined with spaces (emphasis markers aside).
\* The example text gives exactly a heading, a paragraph and a list of two.
C25_BlocksInLineOrder ==
    (output.fn = "parseAssistantContent" /\ output.done) =>
        /\ unmarked(output.blocks) = unmarked(claimedParse(input.lines, "none", <<>>, <<>>))
        /\ input.lines = exampleLines =>
              output.blocks = << Heading(<<"Heading">>),
                                 Paragraph(<<"Some", " ", "para.">>),
                                 List(<< <<"item", " ", "one">>, <<"item", " ", "two">> >>) >>

\* the example text has been parsed
C25_Witness ==
    /\ output.fn = "parseAssistantContent" /\ output.done
    /\ input.lines = exampleLines
    /\ Len(output.blocks) = 3

\* the text holds a matched pair of bold or italic markers
hasEmphasis(t) == stripEmphasis(t) # t

\* C26: no block the formatter returns keeps a matched pair of bold or
\* italic markers, in a paragraph no more than in a heading or a list item;
\* "**bold** and *italic*" gives the paragraph "bold and italic".
C26_EmphasisStripped ==
    (output.fn = "parseAssistantContent" /\ output.done) =>
        \A k \in DOMAIN output.blocks :
            /\ ~hasEmphasis(output.blocks[k].text)
            /\ \A i \in DOMAIN output.blocks[k].items :
                  ~hasEmphasis(output.blocks[k].items[i])

\* C30: at every step of the scan at most one of the open paragraph and the
\* open list holds something, and every block emitted so far is non-empty:
\* a heading and a paragraph have a text, a list has an item.
C30_OneAccumulatorOpen ==
    output.fn = "parseAssistantContent" =>
        /\ ~(Len(output.currentParagraph) > 0 /\ Len(output.currentList.items) > 0)
        /\ output.currentList.open => Len(output.currentList.items) > 0
        /\ \A k \in DOMAIN output.blocks :
              LET b == output.blocks[k] IN
              /\ b.type \in {"heading", "paragraph"} => b.text # <<>>
              /\ b.type = "list" => Len(b.items) >= 1

\* in the middle of a scan: a paragraph was emitted when a list opened, and
\* the list is still open
C30_Witness ==
    /\ output.fn = "parseAssistantContent" /\ ~output.done
    /\ output.k < Len(input.lines)
    /\ output.currentList.open
    /\ \E k \in DOMAIN output.blocks : output.blocks[k].type = "paragraph"

\* the run ended with its summary and none of its calls failed
endedClean(r) ==
    /\ run[r].pc = "done" /\ run[r].hasSummary
    /\ \A k \in DOMAIN run[r].calls : run[r].calls[k].ev # "fail"

\* what a single clearing run over the corpus leaves in the index
singleRunContent == 1..corpus

\* a run counted fewer vectors than it had just indexed: the other run's
\* clear-all came between its upserts and its describeIndexStats
clearedUnderfoot(r) == run[r].summary.vectorCount < run[r].summary.totalIndexed

pastEnsure(q) ==
    /\ req[q].via = "route"
    /\ req[q].pc \notin {"idle", "ensure", "init_await", "done"}

\* route request q was answered without answerLegalQuestion being reached
\* although its body is valid JSON with a non-blank question
failedInInit(q) ==
    /\ req[q].via = "route" /\ req[q].pc = "done"
    /\ nonBlank(q) /\ req[q].outcome = "none"

\* C28: the latch `initialized` is true only if the environment validation
\* returned valid and a call of initLegalIndex was made and resolved, and a
\* route request gets past ensureInitialized only with the latch set; a
\* request whose initialization throws leaves the latch false and is
\* answered with status 500; the failure is not remembered, so every later
\* request runs the validation again (and, the environment unchanged, is
\* answered 500 in its turn, never served without initialization).
C28_LatchOnlyAfterInit ==
    /\ initialized => (envValid(env) /\ initCalls >= 1)
    /\ \A q \in ReqSlots :
         /\ pastEnsure(q) => initialized
         /\ req[q].pc = "init_await" => envValid(env)
         /\ failedInInit(q) => (req[q].status = "500" /\ ~initialized)
         /\ (~envValid(env) /\ req[q].via = "route" /\ req[q].pc = "done") =>
               (req[q].status = "500" /\ req[q].outcome = "none")

\* two requests with a good body, one after the other in a process whose
\* environment is invalid: both failed in the initialization
C28_Witness ==
    /\ served = MaxRequests /\ ~initialized /\ initCalls = 0
    /\ \A q \in ReqSlots : failedInInit(q) /\ req[q].status = "500"

\* run r is a request to the indexing route with clearExisting = true that
\* has ended on a corpus load that threw or that yielded zero documents
clearedThenNoCorpus(r) ==
    /\ run[r].kind = "route" /\ run[r].clear /\ run[r].pc = "done"
    /\ \/ logged(r, Ev("load", 0, "fail"))
       \/ logged(r, Ev("load", 0, "ok")) /\ corpus = 0

\* C29: in the indexing route the clear-all does not depend on what follows:
\* a request with clearExisting = true whose corpus load then fails (500) or
\* yields zero documents (400) is answered with that failure after its
\* clear-all has resolved; what the index held before is gone, and the
\* request embeds and upserts nothing and reports no summary.
C29_ClearNotConditional ==
    \A r \in Runs :
        clearedThenNoCorpus(r) =>
            /\ run[r].status = (IF logged(r, Ev("load", 0, "fail")) THEN "500" ELSE "400")
            /\ logged(r, Ev("deleteAll", 0, "ok"))
            /\ index \cap StaleIndex = {}
            /\ \A k \in DOMAIN run[r].calls : run[r].calls[k].op \notin {"embed", "upsert"}
            /\ ~run[r].hasSummary /\ run[r].totalIndexed = 0

\* a run without clearExisting indexed the corpus and counted its vectors;
\* then a request with clearExisting emptied the index, its load threw, and
\* the index is left empty
C29_Witness ==
    \E r, o \in Runs :
        /\ clearedThenNoCorpus(r) /\ run[r].status = "500"
        /\ run[o].pc = "done" /\ run[o].hasSummary /\ ~run[o].clear
        /\ run[o].summary.vectorCount > batchSize
        /\ index = {}

====
